---------------------------- MODULE Spec2Model ----------------------------
(***************************************************************************)
(* A model of the Opera Revenue API client (opera_revenue_api/client.py)   *)
(* and of the two command line entry points built on it.                   *)
(*                                                                         *)
(* One behaviour is one call of a client operation.  The HTTP server and   *)
(* the file system are the environment: every response is drawn from a     *)
(* small set of (status code, body) pairs; a status check is answered at   *)
(* once or, for at most MaxSlowRequests checks of a call, after up to      *)
(* MaxRequestSeconds seconds of wall-clock time.                           *)
(*                                                                         *)
(* Python values: an optional value is a sequence of length at most one    *)
(* (None is the empty sequence), a dict is a function from its keys to     *)
(* optional strings, a CSV text is represented by its size in bytes.       *)
(***************************************************************************)
EXTENDS Integers, Sequences, FiniteSets, TLC

VARIABLES
    pc,           \* position of the call: idle, wait_initial, sleep, check, done
    op,           \* the operation that was called ("" before the call)
    csv_path,     \* argument csv_path (optional path)
    csv_content,  \* argument csv_content (optional CSV text)
    job_id,       \* argument / local job_id (optional string)
    files,        \* the file system: path -> optional file (its size)
    response,     \* local `response` of _wait_for_job_to_end (a dict)
    job_status,   \* local `job_status` of _wait_for_job_to_end (optional string)
    outcome,      \* how the call ended: pending, returned (value), raised (exc)
    elapsed,      \* seconds run off the 15 minute interval timer
    numPosts,     \* number of requests.post calls made
    numGets,      \* number of requests.get calls made
    numSleeps,    \* number of sleep(5) calls made
    posted,       \* the csv sent by the last POST (optional CSV text)
    lastFetched,  \* history: the dict the last successful status check returned
    allRunning,   \* history: every status check so far answered 200 "running"
    sawNon200,    \* history: some request was answered with a code other than 200
    slowRequests, \* history: number of status checks that took a second or more
    upload_response, \* local `upload_response` of upload_and_wait_for_success
    lastResponse  \* history: the last HTTP response received (optional)

vars == <<pc, op, csv_path, csv_content, job_id, files, response, job_status,
          outcome, elapsed, numPosts, numGets, numSleeps, posted, lastFetched,
          allRunning, sawNon200, slowRequests, upload_response,
          lastResponse>>

----------------------------------------------------------------------------
(* Bounds of the model and constants of the program *)

\* the longest a single status check takes, in seconds
MaxRequestSeconds == 3

\* the number of status checks of one call that are not answered at once
MaxSlowRequests == 2

\* MAX_FILE_SIZE = 30 * 1024 ** 2
MAX_FILE_SIZE == 30 * 1024 * 1024

\* sleep(5)
SLEEP_SECONDS == 5

\* @timeout_decorator.timeout(seconds=15 * 60, ...)
TIMEOUT_SECONDS == 15 * 60

----------------------------------------------------------------------------
(* Python values *)

None == <<>>
Some(v) == <<v>>

EmptyDict == [k \in {} |-> None]

\* dict.get(key): the value, or None when the key is absent
get(d, key) == IF key \in DOMAIN d THEN d[key] ELSE None

\* truth value of an optional string: None and "" are falsy
truthy(v) == v # None /\ v[1] # ""

\* JobStatus enum
JobStatus == [SUCCESS |-> "success", FAILED |-> "failed",
              RUNNING |-> "running", UNDEFINED |-> "undefined"]

----------------------------------------------------------------------------
(* Exceptions *)

\* class -> base class
Bases == [OperaRevenueApiError |-> "ValueError",
          OperaRevenueApiUploadTimeExceeded |-> "OperaRevenueApiError",
          OperaRevenueApiUploadError |-> "OperaRevenueApiError",
          OperaRevenueApiValidationError |-> "OperaRevenueApiError",
          HTTPError |-> "RequestException",
          RequestException |-> "OSError",
          FileExistsError |-> "OSError",
          AttributeError |-> "Exception",
          ValueError |-> "Exception",
          OSError |-> "Exception"]

RECURSIVE issubclass(_, _)
issubclass(cls, base) ==
    \/ cls = base
    \/ cls \in DOMAIN Bases /\ issubclass(Bases[cls], base)

\* an exception: its class, its message (by kind) and the status code and
\* the response body formatted into the message (0 and "" when there is none)
Exc(type, msg, status, body) ==
    [type |-> type, msg |-> msg, status |-> status, body |-> body]
NoExc == Exc("", "", 0, "")

Pending == [kind |-> "pending", exc |-> NoExc, value |-> EmptyDict]
Returned(v) == [kind |-> "returned", exc |-> NoExc, value |-> v]
Raised(e) == [kind |-> "raised", exc |-> e, value |-> EmptyDict]

----------------------------------------------------------------------------
(* The environment: files and HTTP responses *)

Paths == {"revenue.csv"}

\* a CSV text, by its size in bytes
Csv(size) == [size |-> size]

FileSizes == {MAX_FILE_SIZE, MAX_FILE_SIZE + 1}
ContentSizes == {0, MAX_FILE_SIZE + 1}

FileSystems == [Paths -> {None} \cup {Some(Csv(s)) : s \in FileSizes}]

\* a response of the server: json is None when the body is not valid JSON
Response(code, content, json) ==
    [status_code |-> code, content |-> content, json |-> json]

StatusCodes == {200, 201, 302, 404, 499, 500, 599, 600}

ErrorResponses ==
    {Response(c, "error page", None) : c \in StatusCodes \ {200}}

UploadDicts == {[job_id |-> Some("12345")], [job_id |-> Some("")],
                [job_id |-> None], [message |-> Some("rejected")]}

StatusDicts == {[status |-> Some("running")], [status |-> Some("success")],
                [status |-> Some("failed")], [status |-> Some("undefined")],
                [status |-> Some("queued")], [message |-> Some("unknown job")]}

UploadResponses ==
    ErrorResponses
    \cup {Response(200, "json", Some(d)) : d \in UploadDicts}
    \cup {Response(200, "not json", None)}

StatusResponses ==
    ErrorResponses
    \cup {Response(200, "json", Some(d)) : d \in StatusDicts}
    \cup {Response(200, "not json", None)}

RequestSeconds == 0 .. MaxRequestSeconds

----------------------------------------------------------------------------
(* The file system, as os.path.isfile, os.stat and open().read() see it *)

isfile(path) == files[path] # None
st_size(path) == files[path][1].size
read(path) == files[path][1]

----------------------------------------------------------------------------
(* OperaRevenueApiClient: the helpers *)

\* (variant: only codes from 400 on are client errors)
_check_status_code_from_400(r) ==
    IF 500 <= r.status_code /\ r.status_code < 600
    THEN Exc("HTTPError", "API is currently unavailable", 0, r.content)
    ELSE IF r.status_code >= 400
         THEN Exc("HTTPError", "Client error", r.status_code, r.content)
         ELSE NoExc

\* (variant: a 5xx answer is let through instead of raised)
_check_status_code_ignoring_5xx(r) ==
    IF 500 <= r.status_code /\ r.status_code < 600
    THEN NoExc
    ELSE IF r.status_code # 200
         THEN Exc("HTTPError", "Client error", r.status_code, r.content)
         ELSE NoExc

\* _check_status_code(response): the exception it raises, NoExc when none
_check_status_code(r) ==
    IF 500 <= r.status_code /\ r.status_code < 600
    THEN Exc("HTTPError", "API is currently unavailable", 0, r.content)
    ELSE IF r.status_code # 200
         THEN Exc("HTTPError", "Client error", r.status_code, r.content)
         ELSE NoExc

\* try: return response.json()  except JSONDecodeError: return {"error": ...}
json_or_error(r) ==
    IF r.json # None THEN r.json[1] ELSE [error |-> Some(r.content)]

\* (variant: the size test is >= instead of >)
_get_csv_size_ge(path, content) ==
    IF (content = None) = (path = None)
    THEN [exc |-> Exc("OperaRevenueApiError", "One of csv_content or csv_path must be defined", 0, ""),
          csv |-> None]
    ELSE IF content # None
    THEN [exc |-> NoExc, csv |-> content]
    ELSE IF ~isfile(path[1])
    THEN [exc |-> Exc("OperaRevenueApiValidationError", "Could not find csv file", 0, ""),
          csv |-> None]
    ELSE IF st_size(path[1]) >= MAX_FILE_SIZE
    THEN [exc |-> Exc("OperaRevenueApiValidationError", "Selected file is too big", 0, ""),
          csv |-> None]
    ELSE [exc |-> NoExc, csv |-> Some(read(path[1]))]

\* _get_csv(csv_path, csv_content): the exception raised or the csv returned
_get_csv(path, content) ==
    IF (content = None) = (path = None)
    THEN [exc |-> Exc("OperaRevenueApiError", "One of csv_content or csv_path must be defined", 0, ""),
          csv |-> None]
    ELSE IF content # None
    THEN [exc |-> NoExc, csv |-> content]
    ELSE IF ~isfile(path[1])
    THEN [exc |-> Exc("OperaRevenueApiValidationError", "Could not find csv file", 0, ""),
          csv |-> None]
    ELSE IF st_size(path[1]) > MAX_FILE_SIZE
    THEN [exc |-> Exc("OperaRevenueApiValidationError", "Selected file is too big", 0, ""),
          csv |-> None]
    ELSE [exc |-> NoExc, csv |-> Some(read(path[1]))]

\* upload_daily_data(csv_path, csv_content) when the server answers the POST
\* with r: the exception or the dict, and the POST made (if any)
upload_daily_data_call(path, content, r) ==
    LET got == _get_csv(path, content) IN
    IF got.exc # NoExc
    THEN [exc |-> got.exc, value |-> EmptyDict, posts |-> 0, posted |-> None]
    ELSE LET e == _check_status_code(r) IN
         [exc |-> e,
          value |-> IF e = NoExc THEN json_or_error(r) ELSE EmptyDict,
          posts |-> 1, posted |-> got.csv]

\* (variant: the job_id test is missing)
check_job_status_call_unguarded(jid, r) ==
    LET e == _check_status_code(r) IN
    [exc |-> e,
     value |-> IF e = NoExc THEN json_or_error(r) ELSE EmptyDict,
     gets |-> 1]

\* check_job_status(job_id) when the server answers the GET with r
check_job_status_call(jid, r) ==
    IF jid = None
    THEN [exc |-> Exc("OperaRevenueApiValidationError", "job_id must be provided to check job status", 0, ""),
          value |-> EmptyDict, gets |-> 0]
    ELSE LET e == _check_status_code(r) IN
         [exc |-> e,
          value |-> IF e = NoExc THEN json_or_error(r) ELSE EmptyDict,
          gets |-> 1]

\* (variant: tests the presence of the key, not the truth of its value)
upload_not_started_key_only(resp) == "job_id" \notin DOMAIN resp

\* `if not job_id` of upload_and_wait_for_success
upload_not_started(resp) == ~truthy(get(resp, "job_id"))

\* the test of `while job_status == JobStatus.RUNNING.value`
loop_continues(status) == status = Some(JobStatus.RUNNING)

\* (variant: raises only for the status "failed")
job_ended_unless_failed(status, resp) ==
    IF status # Some(JobStatus.FAILED)
    THEN Returned(resp)
    ELSE Raised(Exc("OperaRevenueApiUploadError", "Data upload failed", 0, ""))

\* the statements after the loop: return the response or raise
job_ended(status, resp) ==
    IF status = Some(JobStatus.SUCCESS)
    THEN Returned(resp)
    ELSE Raised(Exc("OperaRevenueApiUploadError", "Data upload failed", 0, ""))

\* (variant: the timer runs out one second late)
timer_expired_late(t) == t > TIMEOUT_SECONDS

\* the interval timer set by the timeout decorator has run out after t seconds
timer_expired(t) == t >= TIMEOUT_SECONDS

\* the exception the timeout decorator raises
timeout_exception == Exc("OperaRevenueApiUploadTimeExceeded", "Timed Out", 0, "")

\* the attributes class OperaRevenueApiClient defines
ClientAttributes ==
    {"MAX_FILE_SIZE", "JobStatus", "__init__", "upload_and_wait_for_success",
     "check_job_status", "upload_daily_data", "_check_status_code",
     "_get_endpoint", "_get_csv", "_wait_for_job_to_end"}

hasattr(name) == name \in ClientAttributes

----------------------------------------------------------------------------
(* Init: a client was constructed, no call was made yet *)

Init ==
    /\ pc = "idle"
    /\ op = ""
    /\ csv_path = None
    /\ csv_content = None
    /\ job_id = None
    /\ files \in FileSystems
    /\ response = EmptyDict
    /\ job_status = None
    /\ outcome = Pending
    /\ elapsed = 0
    /\ numPosts = 0
    /\ numGets = 0
    /\ numSleeps = 0
    /\ posted = None
    /\ lastFetched = EmptyDict
    /\ allRunning = TRUE
    /\ sawNon200 = FALSE
    /\ slowRequests = 0
    /\ upload_response = None
    /\ lastResponse = None

PathArgs == {None} \cup {Some(p) : p \in Paths}
ContentArgs == {None} \cup {Some(Csv(s)) : s \in ContentSizes}
JobIdArgs == {None, Some(""), Some("12345")}

----------------------------------------------------------------------------
(* The operations.  Each call starts in pc = "idle". *)

\* client.upload_daily_data(csv_path, csv_content), as `--upload-only` calls it
upload_daily_data ==
    /\ pc = "idle"
    /\ \E path \in PathArgs, content \in ContentArgs, r \in UploadResponses :
          LET res == upload_daily_data_call(path, content, r) IN
          /\ op' = "upload_daily_data"
          /\ csv_path' = path
          /\ csv_content' = content
          /\ numPosts' = numPosts + res.posts
          /\ posted' = res.posted
          /\ sawNon200' = (res.posts = 1 /\ r.status_code # 200)
          /\ lastResponse' = IF res.posts = 1 THEN Some(r) ELSE None
          /\ outcome' = IF res.exc # NoExc THEN Raised(res.exc)
                        ELSE Returned(res.value)
          /\ pc' = "done"
    /\ UNCHANGED <<job_id, files, response, job_status, elapsed, numGets,
                   numSleeps, lastFetched, allRunning, slowRequests,
                   upload_response>>

\* client.check_job_status(job_id), as `--job-status` calls it
check_job_status ==
    /\ pc = "idle"
    /\ \E jid \in JobIdArgs, r \in StatusResponses :
          LET res == check_job_status_call(jid, r) IN
          /\ op' = "check_job_status"
          /\ job_id' = jid
          /\ numGets' = numGets + res.gets
          /\ sawNon200' = (res.gets = 1 /\ r.status_code # 200)
          /\ lastResponse' = IF res.gets = 1 THEN Some(r) ELSE None
          /\ lastFetched' = IF res.exc = NoExc THEN res.value ELSE lastFetched
          /\ outcome' = IF res.exc # NoExc THEN Raised(res.exc)
                        ELSE Returned(res.value)
          /\ pc' = "done"
    /\ UNCHANGED <<csv_path, csv_content, files, response, job_status, elapsed,
                   numPosts, numSleeps, posted, allRunning, slowRequests,
                   upload_response>>

\* client.upload_and_wait_for_success(csv_path, csv_content), up to the call
\* of _wait_for_job_to_end, which arms the 15 minute timer
upload_and_wait_for_success ==
    /\ pc = "idle"
    /\ \E path \in PathArgs, content \in ContentArgs, r \in UploadResponses :
          LET res == upload_daily_data_call(path, content, r) IN
          /\ op' = "upload_and_wait_for_success"
          /\ csv_path' = path
          /\ csv_content' = content
          /\ numPosts' = numPosts + res.posts
          /\ posted' = res.posted
          /\ sawNon200' = (res.posts = 1 /\ r.status_code # 200)
          /\ lastResponse' = IF res.posts = 1 THEN Some(r) ELSE None
          /\ IF res.exc # NoExc
             THEN /\ outcome' = Raised(res.exc)
                  /\ pc' = "done"
                  /\ UNCHANGED <<upload_response, job_id>>
             ELSE /\ upload_response' = Some(res.value)
                  /\ job_id' = get(res.value, "job_id")
                  /\ IF upload_not_started(res.value)
                     THEN /\ outcome' = Raised(Exc("OperaRevenueApiUploadError",
                                                   "Upload was not started", 0, ""))
                          /\ pc' = "done"
                     ELSE /\ outcome' = outcome
                          /\ pc' = "wait_initial"
    /\ elapsed' = 0
    /\ UNCHANGED <<files, response, job_status, numGets, numSleeps,
                   lastFetched, allRunning, slowRequests>>

\* A status check made by _wait_for_job_to_end, which takes d seconds and is
\* answered with r.  The initial check (line 156) does not read the status
\* of the dict it fetches, the check in the loop does (line 160).  The timer
\* may run out before the answer is there; an exception or the end of the
\* loop leaves the function, which cancels the timer.
polling_check(r, d, initial) ==
    /\ d > 0 => slowRequests < MaxSlowRequests
    /\ slowRequests' = slowRequests + (IF d > 0 THEN 1 ELSE 0)
    /\ numGets' = numGets + 1
    /\ IF timer_expired(elapsed + d)
       THEN /\ outcome' = Raised(timeout_exception)
            /\ pc' = "done"
            /\ elapsed' = TIMEOUT_SECONDS
            /\ job_status' = Some(JobStatus.RUNNING)
            /\ UNCHANGED <<response, lastFetched, allRunning, sawNon200,
                           lastResponse>>
       ELSE LET res == check_job_status_call(job_id, r) IN
            /\ lastResponse' = Some(r)
            /\ sawNon200' = (sawNon200 \/ r.status_code # 200)
            /\ allRunning' = (/\ allRunning
                              /\ res.exc = NoExc
                              /\ get(res.value, "status") = Some(JobStatus.RUNNING))
            /\ IF res.exc # NoExc
               THEN /\ outcome' = Raised(res.exc)
                    /\ pc' = "done"
                    /\ elapsed' = 0
                    /\ job_status' = Some(JobStatus.RUNNING)
                    /\ UNCHANGED <<response, lastFetched>>
               ELSE /\ response' = res.value
                    /\ lastFetched' = res.value
                    /\ job_status' = IF initial THEN Some(JobStatus.RUNNING)
                                     ELSE get(res.value, "status")
                    /\ IF loop_continues(job_status')
                       THEN /\ pc' = "sleep"
                            /\ elapsed' = elapsed + d
                            /\ outcome' = outcome
                       ELSE /\ pc' = "done"
                            /\ elapsed' = 0
                            /\ outcome' = job_ended(job_status', response')
    /\ UNCHANGED <<op, csv_path, csv_content, job_id, files, numPosts,
                   numSleeps, posted, upload_response>>

\* job_status = RUNNING; response = self.check_job_status(job_id); while test
wait_initial_check ==
    /\ pc = "wait_initial"
    /\ \E r \in StatusResponses, d \in RequestSeconds :
          polling_check(r, d, TRUE)

\* sleep(5) in the loop
wait_sleep ==
    /\ pc = "sleep"
    /\ numSleeps' = numSleeps + 1
    /\ IF timer_expired(elapsed + SLEEP_SECONDS)
       THEN /\ outcome' = Raised(timeout_exception)
            /\ pc' = "done"
            /\ elapsed' = TIMEOUT_SECONDS
       ELSE /\ outcome' = outcome
            /\ pc' = "check"
            /\ elapsed' = elapsed + SLEEP_SECONDS
    /\ UNCHANGED <<op, csv_path, csv_content, job_id, files, response,
                   job_status, numPosts, numGets, posted, lastFetched,
                   allRunning, sawNon200, slowRequests, upload_response,
                   lastResponse>>

\* response = self.check_job_status(job_id); job_status = response.get("status");
\* while test
wait_check ==
    /\ pc = "check"
    /\ \E r \in StatusResponses, d \in RequestSeconds :
          polling_check(r, d, FALSE)

\* opera_revenue_api_fetch: client.fetch_data(start_date=..., csv_path=...);
\* class OperaRevenueApiClient defines no fetch_data
opera_revenue_api_fetch ==
    /\ pc = "idle"
    /\ \E path \in PathArgs :
          /\ op' = "fetch_data"
          /\ csv_path' = path
          /\ ~hasattr("fetch_data")
          /\ outcome' = Raised(Exc("AttributeError",
                                   "object has no attribute fetch_data", 0, ""))
          /\ pc' = "done"
    /\ UNCHANGED <<csv_content, job_id, files, response, job_status, elapsed,
                   numPosts, numGets, numSleeps, posted, lastFetched,
                   allRunning, sawNon200, slowRequests, upload_response,
                   lastResponse>>

Next ==
    \/ upload_daily_data
    \/ check_job_status
    \/ upload_and_wait_for_success
    \/ wait_initial_check
    \/ wait_sleep
    \/ wait_check
    \/ opera_revenue_api_fetch

Spec == Init /\ [][Next]_vars

----------------------------------------------------------------------------
(* The claims *)

\* C1 (as claimed): upload_and_wait_for_success polls only while the most
\* recently fetched status is "running": as soon as a status check is
\* answered with anything else (the k-th response) the call has ended, with
\* k checks made and k - 1 sleeps; in particular a first response that is
\* not "running" ends the call after one check and no sleep.
C1_StopsAtFirstNonRunning ==
    (op = "upload_and_wait_for_success" /\ numGets > 0 /\ ~allRunning)
        => (pc = "done" /\ numSleeps = numGets - 1)

\* C2 (as claimed): upload_daily_data called with csv_path and csv_content
\* both None or both given fails with an OperaRevenueApiValidationError.
C2_BothOrNeitherIsValidationError ==
    (/\ op = "upload_daily_data"
     /\ pc = "done"
     /\ (csv_path = None) = (csv_content = None))
        => (/\ outcome.kind = "raised"
            /\ issubclass(outcome.exc.type, "OperaRevenueApiValidationError"))

\* C3: when upload_and_wait_for_success returns, the value returned is the
\* last status dict fetched and its status is "success"; when the loop ends
\* on any other status (failed, undefined, unrecognized, no status key) the
\* call raises OperaRevenueApiUploadError and returns nothing.
C3_ReturnsOnlyLastSuccess ==
    (op = "upload_and_wait_for_success" /\ pc = "done")
        => /\ outcome.kind = "returned"
                => /\ outcome.value = lastFetched
                   /\ get(outcome.value, "status") = Some("success")
           /\ (/\ numGets > 0
               /\ job_status # Some("running")
               /\ job_status # Some("success"))
                => /\ outcome.kind = "raised"
                   /\ outcome.exc.type = "OperaRevenueApiUploadError"
                   /\ outcome.value = EmptyDict

C3_Witness ==
    /\ op = "upload_and_wait_for_success"
    /\ pc = "done"
    /\ numGets >= 3
    /\ outcome = Returned([status |-> Some("success")])

\* C4: the wait loop is bounded by the 15 minute timer: while the call polls
\* less than 900 seconds have run off the timer and every sleep has taken 5 of
\* them, and a call whose every status check was answered "running" has ended
\* only with OperaRevenueApiUploadTimeExceeded, a subclass of
\* OperaRevenueApiError, 900 seconds after polling began, returning nothing.
C4_DeadlineEndsPolling ==
    op = "upload_and_wait_for_success"
        => /\ pc \in {"wait_initial", "sleep", "check"}
                => /\ elapsed < 900
                   /\ numSleeps * 5 <= elapsed
                   /\ outcome.kind = "pending"
           /\ (pc = "done" /\ numGets > 0 /\ allRunning)
                => /\ outcome.kind = "raised"
                   /\ outcome.exc.type = "OperaRevenueApiUploadTimeExceeded"
                   /\ issubclass(outcome.exc.type, "OperaRevenueApiError")
                   /\ elapsed = 900

C4_Witness ==
    /\ op = "upload_and_wait_for_success"
    /\ pc = "done"
    /\ allRunning
    /\ numGets = 180
    /\ numSleeps = 180
    /\ elapsed = 900
    /\ outcome.exc.type = "OperaRevenueApiUploadTimeExceeded"

\* C5: when the upload response has no job id (key absent, null or empty,
\* or the {"error": body} fallback), upload_and_wait_for_success raises
\* OperaRevenueApiUploadError having made no status check and no sleep.
C5_NoJobIdNoPolling ==
    (/\ op = "upload_and_wait_for_success"
     /\ upload_response # None
     /\ ~truthy(get(upload_response[1], "job_id")))
        => /\ pc = "done"
           /\ outcome.kind = "raised"
           /\ outcome.exc.type = "OperaRevenueApiUploadError"
           /\ numGets = 0
           /\ numSleeps = 0

C5_Witness ==
    /\ op = "upload_and_wait_for_success"
    /\ pc = "done"
    /\ upload_response = Some([error |-> Some("not json")])
    /\ outcome.exc.type = "OperaRevenueApiUploadError"
    /\ numPosts = 1
    /\ numGets = 0

\* C6: an answer of the upload or status endpoint with a code in 500..599
\* raises the "unavailable" HTTPError, an answer with any other code but 200
\* raises the "client error" HTTPError with the status code and the body,
\* only an answer with code 200 lets a call return, and HTTPError is no
\* OperaRevenueApiError.
C6_StatusCodeDecidesHttpError ==
    lastResponse # None
        => LET r == lastResponse[1]
               is5xx == 500 <= r.status_code /\ r.status_code <= 599
           IN /\ is5xx
                   => /\ pc = "done"
                      /\ outcome = Raised(Exc("HTTPError",
                             "API is currently unavailable", 0, r.content))
              /\ (~is5xx /\ r.status_code # 200)
                   => /\ pc = "done"
                      /\ outcome = Raised(Exc("HTTPError", "Client error",
                                              r.status_code, r.content))
              /\ outcome.kind = "returned" => r.status_code = 200
              /\ outcome.exc.type = "HTTPError"
                   => ~issubclass(outcome.exc.type, "OperaRevenueApiError")

C6_Witness ==
    /\ op = "upload_and_wait_for_success"
    /\ pc = "done"
    /\ numGets >= 2
    /\ lastResponse # None
    /\ lastResponse[1].status_code = 302
    /\ outcome = Raised(Exc("HTTPError", "Client error", 302, "error page"))

\* C7 (as claimed): the fetch entry point calls an operation fetch_data that
\* the client has, and with a csv_path whose file exists the call fails with
\* FileExistsError.
C7_FetchExistingFileRaisesFileExists ==
    (/\ op = "fetch_data"
     /\ pc = "done"
     /\ csv_path # None
     /\ files[csv_path[1]] # None)
        => /\ hasattr("fetch_data")
           /\ outcome.kind = "raised"
           /\ outcome.exc.type = "FileExistsError"

\* C8: an upload from the path of an existing file of s bytes fails with
\* OperaRevenueApiValidationError exactly when s > 30 * 1024^2 (a file of
\* exactly that size is posted); an upload of csv_content is never rejected
\* for its size: the content is posted as it is.
C8_SizeLimitOnlyForFiles ==
    (op \in {"upload_daily_data", "upload_and_wait_for_success"})
        => /\ (csv_path # None /\ csv_content = None /\ files[csv_path[1]] # None)
                => /\ (/\ outcome.kind = "raised"
                       /\ issubclass(outcome.exc.type,
                                     "OperaRevenueApiValidationError"))
                        <=> files[csv_path[1]][1].size > 31457280
                   /\ files[csv_path[1]][1].size <= 31457280
                        => numPosts = 1 /\ posted = files[csv_path[1]]
           /\ (csv_path = None /\ csv_content # None)
                => /\ ~issubclass(outcome.exc.type,
                                  "OperaRevenueApiValidationError")
                   /\ numPosts = 1
                   /\ posted = csv_content

C8_Witness ==
    /\ op = "upload_daily_data"
    /\ pc = "done"
    /\ csv_path = Some("revenue.csv")
    /\ csv_content = None
    /\ files["revenue.csv"] = Some(Csv(31457280))
    /\ posted = Some(Csv(31457280))
    /\ outcome.kind = "returned"

\* C9: there is no retry: once a request of upload_and_wait_for_success (the
\* POST or any status check) was answered with a code other than 200, the
\* call has ended with an HTTPError, that answer is the last one received,
\* and no request or sleep is made after it.
C9_NoRetryAfterNon200 ==
    /\ [](sawNon200
            => /\ pc = "done"
               /\ outcome.kind = "raised"
               /\ outcome.exc.type = "HTTPError"
               /\ lastResponse # None
               /\ lastResponse[1].status_code # 200)
    /\ [][sawNon200 => /\ numPosts' = numPosts
                       /\ numGets' = numGets
                       /\ numSleeps' = numSleeps]_vars

C9_Witness ==
    /\ op = "upload_and_wait_for_success"
    /\ sawNon200
    /\ pc = "done"
    /\ numGets >= 2
    /\ lastResponse # None
    /\ lastResponse[1].status_code = 500

\* C10: a call rejected by argument validation sends no request:
\* check_job_status(None) raises OperaRevenueApiValidationError without a GET,
\* and an upload rejected for both or neither argument, a missing file or an
\* oversized file ends with an OperaRevenueApiError without a POST, a status
\* check or a sleep.
C10_RejectedCallSendsNothing ==
    /\ (op = "check_job_status" /\ job_id = None)
        => /\ pc = "done"
           /\ outcome.kind = "raised"
           /\ outcome.exc.type = "OperaRevenueApiValidationError"
           /\ numGets = 0
           /\ numPosts = 0
    /\ (/\ op \in {"upload_daily_data", "upload_and_wait_for_success"}
        /\ \/ (csv_path = None) = (csv_content = None)
           \/ /\ csv_content = None
              /\ csv_path # None
              /\ \/ files[csv_path[1]] = None
                 \/ files[csv_path[1]][1].size > 31457280)
        => /\ pc = "done"
           /\ outcome.kind = "raised"
           /\ issubclass(outcome.exc.type, "OperaRevenueApiError")
           /\ numPosts = 0
           /\ numGets = 0
           /\ numSleeps = 0

C10_Witness ==
    /\ op = "upload_and_wait_for_success"
    /\ pc = "done"
    /\ csv_path = Some("revenue.csv")
    /\ csv_content = None
    /\ files["revenue.csv"] = Some(Csv(31457281))
    /\ outcome.exc.type = "OperaRevenueApiValidationError"
    /\ numPosts = 0
    /\ numGets = 0

=============================================================================
